---- MODULE Spec2Model ----
(***************************************************************************)
(* igraph_generalized_petersen (src/constructors/generalized_petersen.c).  *)
(* One call of the constructor, one action per source line.  The integer   *)
(* vector and the graph factory igraph_create are the collaborators the    *)
(* constructor calls; igraph_integer_t is a signed IntBits-bit integer.    *)
(***************************************************************************)
EXTENDS Integers, Sequences, FiniteSets, TLC

\* ---------------------------------------------------------------- bounds
IntBits == 6          \* width of igraph_integer_t in the model
MaxN    == 6          \* the small inputs n range over -1 .. MaxN
MaxK    == 3          \* the small inputs k range over -1 .. MaxK
MaxFail == 2          \* allocation failures injected into one call

\* ------------------------------------------------- igraph_integer_t
RECURSIVE Pow2(_)
Pow2(e) == IF e = 0 THEN 1 ELSE 2 * Pow2(e - 1)

MAXINT == Pow2(IntBits - 1) - 1
MININT == -Pow2(IntBits - 1)

InRange(x) == MININT <= x /\ x <= MAXINT

\* two's complement wrap-around of a mathematical value
Wrap(x) == ((x - MININT) % Pow2(IntBits)) + MININT

\* C's % : truncated division, the sign follows the dividend (b > 0 here)
CMod(a, b) == IF a >= 0 THEN a % b ELSE -((-a) % b)

\* a + b and a * b in igraph_integer_t: the value a wrapping build computes
\* and whether the signed operation overflowed (undefined behaviour)
Add(a, b) == [val |-> Wrap(a + b), ovf |-> ~InRange(a + b)]
Mul(a, b) == [val |-> Wrap(a * b), ovf |-> ~InRange(a * b)]

\* ------------------------------------------ expressions of the function
\* line 55: 2*n
\* faulty variant: the vertex count of one ring only
NoOfNodesExprSingleMutant(nn) == Mul(1, nn)
NoOfNodesExpr(nn) == Mul(2, nn)

\* line 58: n < 3
NTooSmall(nn) == nn < 3

\* line 62: 2*k, evaluated only when k > 0 (short-circuit &&)
TwoK(kk) == Mul(2, kk)

\* line 62: k > 0 && 2*k < n, with twok the value 2*k evaluated to
\* faulty variant: admits 2k = n
KInRangeNonStrictMutant(kk, twok, nn) == kk > 0 /\ twok <= nn
KInRange(kk, twok, nn) == kk > 0 /\ twok < nn

\* line 67: 3*n, the capacity handed to igraph_vector_int_reserve
\* variant: 6*n, one slot per endpoint
ReserveExprSixMutant(nn) == Mul(6, nn)
ReserveExpr(nn) == Mul(3, nn)

\* line 71: (i + 1) % n
\* faulty variant: the outer ring is not closed
OuterNextNoModMutant(ii, nn) == Add(ii, 1)
OuterNext(ii, nn) ==
    LET s == Add(ii, 1) IN [val |-> CMod(s.val, nn), ovf |-> s.ovf]

\* lines 73, 74: i + n
Spoke(ii, nn) == Add(ii, nn)

\* line 75: ((i + k) % n) + n
\* faulty variant: the inner ring steps by 1 instead of k
InnerNextStepOneMutant(ii, kk, nn) ==
    LET s == Add(ii, 1)
        r == Add(CMod(s.val, nn), nn)
    IN  [val |-> r.val, ovf |-> s.ovf \/ r.ovf]
InnerNext(ii, kk, nn) ==
    LET s == Add(ii, kk)
        r == Add(CMod(s.val, nn), nn)
    IN  [val |-> r.val, ovf |-> s.ovf \/ r.ovf]

\* ----------------------------------------------------------------- state
VARIABLES
    n, k,          \* the arguments
    pc,            \* the source line about to execute, "done" or "trap"
    no_of_nodes,   \* line 55
    i,             \* line 56, the loop counter
    edges,         \* contents of the vector edges
    cap,           \* allocated capacity of edges (integers)
    buf,           \* storage of edges: "none", "live" or "freed"
    frees,         \* how many times the storage of edges was released
    finally,       \* entries this call has on the finally stack
    ret,           \* the error code returned
    errmsg,        \* the message given to IGRAPH_ERROR
    exitline,      \* the source line the call returned from
    graph,         \* what igraph_create stored in *graph
    ub,            \* a signed overflow has been evaluated
    fails,         \* allocation failures so far
    emitted,       \* the arguments of the push_back calls so far
    regrows,       \* push_back calls that had to enlarge the storage
    reserved       \* capacity after the reserve of line 67, -1 before

vars == <<n, k, pc, no_of_nodes, i, edges, cap, buf, frees, finally, ret,
          errmsg, exitline, graph, ub, fails, emitted, regrows, reserved>>

NoGraph == [nv |-> -1, edges |-> <<>>, built |-> FALSE]

\* the arguments: every small value and the values around the limits of
\* igraph_integer_t.  n stops at floor(MAX/2): beyond it 2*n of line 55
\* overflows on entry and no graph on 2n vertices is representable.
NInputs == (-1 .. MaxN) \cup {MININT, MAXINT \div 3, (MAXINT \div 3) + 1, MAXINT \div 2}
KInputs == (-1 .. MaxK) \cup {MININT, (MAXINT \div 2) + 1, MAXINT}

Init ==
    /\ n \in NInputs
    /\ k \in KInputs
    /\ pc = "L55"
    /\ no_of_nodes = 0
    /\ i = 0
    /\ edges = <<>>
    /\ cap = 0
    /\ buf = "none"
    /\ frees = 0
    /\ finally = 0
    /\ ret = "none"
    /\ errmsg = "none"
    /\ exitline = 0
    /\ graph = NoGraph
    /\ ub = FALSE
    /\ fails = 0
    /\ emitted = <<>>
    /\ regrows = 0
    /\ reserved = -1

\* a signed overflow is undefined: the build either traps or wraps
Trap ==
    /\ pc' = "trap"
    /\ ub' = TRUE
    /\ UNCHANGED <<n, k, no_of_nodes, i, edges, cap, buf, frees, finally, ret,
                   errmsg, exitline, graph, fails, emitted, regrows, reserved>>

\* line 55
L55 ==
    /\ pc = "L55"
    /\ LET r == NoOfNodesExpr(n) IN
         \/ r.ovf /\ Trap
         \/ /\ no_of_nodes' = r.val
            /\ ub' = (ub \/ r.ovf)
            /\ pc' = "L58"
            /\ UNCHANGED <<n, k, i, edges, cap, buf, frees, finally, ret, errmsg,
                           exitline, graph, fails, emitted, regrows, reserved>>

\* IGRAPH_ERROR / a failed IGRAPH_CHECK: the error handler releases what is
\* on the finally stack, then the function returns the code
ErrorReturn(code, msg, line) ==
    /\ ret' = code
    /\ errmsg' = msg
    /\ exitline' = line
    /\ pc' = "done"
    /\ finally' = 0
    /\ buf' = IF finally > 0 THEN "freed" ELSE buf
    /\ frees' = IF finally > 0 THEN frees + 1 ELSE frees

\* lines 58-60
L58 ==
    /\ pc = "L58"
    /\ IF NTooSmall(n)
       THEN /\ ErrorReturn("IGRAPH_EINVAL", "n must be at least 3.", 59)
            /\ UNCHANGED <<n, k, no_of_nodes, i, edges, cap, graph, ub, fails,
                           emitted, regrows, reserved>>
       ELSE /\ pc' = "L62"
            /\ UNCHANGED <<n, k, no_of_nodes, i, edges, cap, buf, frees, finally,
                           ret, errmsg, exitline, graph, ub, fails, emitted,
                           regrows, reserved>>

\* lines 62-64
L62 ==
    /\ pc = "L62"
    /\ LET r == IF k > 0 THEN TwoK(k) ELSE [val |-> 0, ovf |-> FALSE] IN
         \/ r.ovf /\ Trap
         \/ /\ ub' = (ub \/ r.ovf)
            /\ IF ~KInRange(k, r.val, n)
               THEN /\ ErrorReturn("IGRAPH_EINVAL",
                                   "k must be positive and less than n/2.", 63)
                    /\ UNCHANGED <<n, k, no_of_nodes, i, edges, cap, graph, fails,
                                   emitted, regrows, reserved>>
               ELSE /\ pc' = "L66"
                    /\ UNCHANGED <<n, k, no_of_nodes, i, edges, cap, buf, frees,
                                   finally, ret, errmsg, exitline, graph, fails,
                                   emitted, regrows, reserved>>

\* ------------------------------------------------ the integer vector
\* igraph_vector_int_init(v, 0) allocates room for one element
InitialCapacity(size) == IF size > 0 THEN size ELSE 1

\* push_back on a full vector asks for twice the size (1 when empty)
GrownCapacity(size) == IF size = 0 THEN 1 ELSE 2 * size

\* line 66: IGRAPH_VECTOR_INT_INIT_FINALLY(&edges, 0)
L66 ==
    /\ pc = "L66"
    /\ \/ /\ buf' = "live"
          /\ cap' = InitialCapacity(0)
          /\ edges' = <<>>
          /\ finally' = finally + 1
          /\ pc' = "L67"
          /\ UNCHANGED <<n, k, no_of_nodes, i, frees, ret, errmsg, exitline,
                         graph, ub, fails, emitted, regrows, reserved>>
       \/ /\ fails < MaxFail
          /\ fails' = fails + 1
          /\ ErrorReturn("IGRAPH_ENOMEM", "cannot initialize vector", 66)
          /\ UNCHANGED <<n, k, no_of_nodes, i, edges, cap, graph, ub, emitted,
                         regrows, reserved>>

\* line 67: IGRAPH_CHECK(igraph_vector_int_reserve(&edges, 3*n))
L67 ==
    /\ pc = "L67"
    /\ LET r == ReserveExpr(n) IN
         \/ r.ovf /\ Trap
         \/ /\ ub' = (ub \/ r.ovf)
            /\ \/ /\ cap' = IF r.val <= cap THEN cap ELSE r.val
                  /\ reserved' = cap'
                  /\ pc' = "L69"
                  /\ UNCHANGED <<n, k, no_of_nodes, i, edges, buf, frees, finally,
                                 ret, errmsg, exitline, graph, fails, emitted,
                                 regrows>>
               \/ /\ r.val > cap
                  /\ fails < MaxFail
                  /\ fails' = fails + 1
                  /\ ErrorReturn("IGRAPH_ENOMEM", "cannot reserve space for vector", 67)
                  /\ UNCHANGED <<n, k, no_of_nodes, i, edges, cap, graph, emitted,
                                 regrows, reserved>>

\* line 69: the loop test i < n
L69 ==
    /\ pc = "L69"
    /\ pc' = IF i < n THEN "L70" ELSE "L78"
    /\ UNCHANGED <<n, k, no_of_nodes, i, edges, cap, buf, frees, finally, ret,
                   errmsg, exitline, graph, ub, fails, emitted, regrows, reserved>>

\* igraph_vector_int_push_back(&edges, e); the caller ignores its result
PushBack(e) ==
    /\ emitted' = Append(emitted, e)
    /\ IF Len(edges) < cap
       THEN /\ edges' = Append(edges, e)
            /\ UNCHANGED <<cap, fails, regrows>>
       ELSE \/ /\ cap' = GrownCapacity(Len(edges))
               /\ edges' = Append(edges, e)
               /\ regrows' = regrows + 1
               /\ UNCHANGED fails
            \/ /\ fails < MaxFail
               /\ fails' = fails + 1
               /\ UNCHANGED <<edges, cap, regrows>>

\* one push_back statement of the loop body, pushing the value of r
PushLine(line, r, nextpc, nexti) ==
    /\ pc = line
    /\ \/ r.ovf /\ Trap
       \/ /\ ub' = (ub \/ r.ovf)
          /\ PushBack(r.val)
          /\ pc' = nextpc
          /\ i' = nexti
          /\ UNCHANGED <<n, k, no_of_nodes, buf, frees, finally, ret, errmsg,
                         exitline, graph, reserved>>

Exact(x) == [val |-> x, ovf |-> FALSE]

\* lines 70-75; the i++ of line 69 follows line 75
L70 == PushLine("L70", Exact(i), "L71", i)
L71 == PushLine("L71", OuterNext(i, n), "L72", i)
L72 == PushLine("L72", Exact(i), "L73", i)
L73 == PushLine("L73", Spoke(i, n), "L74", i)
L74 == PushLine("L74", Spoke(i, n), "L75", i)
L75 == PushLine("L75", InnerNext(i, k, n), "L69", i + 1)

\* ------------------------------------------------- the graph factory
\* igraph_create(graph, &edges, no_of_nodes, IGRAPH_UNDIRECTED): what it
\* reports for a list it cannot build a graph from, "" when it can
CreateRejects(es, nv) ==
    IF Len(es) % 2 # 0 THEN "IGRAPH_EINVAL"
    ELSE IF nv < 0 THEN "IGRAPH_EINVAL"
    ELSE IF \E j \in 1 .. Len(es) : es[j] < 0 \/ es[j] >= nv THEN "IGRAPH_EINVVID"
    ELSE ""

\* line 78: IGRAPH_CHECK(igraph_create(...))
L78 ==
    /\ pc = "L78"
    /\ LET why == CreateRejects(edges, no_of_nodes) IN
         \/ /\ why # ""
            /\ ErrorReturn(why, "igraph_create failed", 78)
            /\ UNCHANGED <<n, k, no_of_nodes, i, edges, cap, graph, ub, fails,
                           emitted, regrows, reserved>>
         \/ /\ why = ""
            /\ fails < MaxFail
            /\ fails' = fails + 1
            /\ ErrorReturn("IGRAPH_ENOMEM", "igraph_create failed", 78)
            /\ UNCHANGED <<n, k, no_of_nodes, i, edges, cap, graph, ub, emitted,
                           regrows, reserved>>
         \/ /\ why = ""
            /\ graph' = [nv |-> no_of_nodes, edges |-> edges, built |-> TRUE]
            /\ pc' = "L80"
            /\ UNCHANGED <<n, k, no_of_nodes, i, edges, cap, buf, frees, finally,
                           ret, errmsg, exitline, ub, fails, emitted, regrows,
                           reserved>>

\* line 80: igraph_vector_int_destroy(&edges)
\* faulty variant: the buffer is not destroyed on the success path
L80SkipDestroyMutant ==
    /\ pc = "L80"
    /\ pc' = "L81"
    /\ UNCHANGED <<n, k, no_of_nodes, i, edges, cap, buf, frees, finally, ret,
                   errmsg, exitline, graph, ub, fails, emitted, regrows, reserved>>
L80 ==
    /\ pc = "L80"
    /\ buf' = "freed"
    /\ frees' = frees + 1
    /\ pc' = "L81"
    /\ UNCHANGED <<n, k, no_of_nodes, i, edges, cap, finally, ret, errmsg,
                   exitline, graph, ub, fails, emitted, regrows, reserved>>

\* line 81: IGRAPH_FINALLY_CLEAN(1)
L81 ==
    /\ pc = "L81"
    /\ finally' = finally - 1
    /\ pc' = "L83"
    /\ UNCHANGED <<n, k, no_of_nodes, i, edges, cap, buf, frees, ret, errmsg,
                   exitline, graph, ub, fails, emitted, regrows, reserved>>

\* line 83: return IGRAPH_SUCCESS
L83 ==
    /\ pc = "L83"
    /\ ret' = "IGRAPH_SUCCESS"
    /\ exitline' = 83
    /\ pc' = "done"
    /\ UNCHANGED <<n, k, no_of_nodes, i, edges, cap, buf, frees, finally, errmsg,
                   graph, ub, fails, emitted, regrows, reserved>>

Next ==
    \/ L55 \/ L58 \/ L62 \/ L66 \/ L67 \/ L69
    \/ L70 \/ L71 \/ L72 \/ L73 \/ L74 \/ L75
    \/ L78 \/ L80 \/ L81 \/ L83

Spec == Init /\ [][Next]_vars

TypeOK ==
    /\ pc \in {"L55", "L58", "L62", "L66", "L67", "L69", "L70", "L71", "L72",
               "L73", "L74", "L75", "L78", "L80", "L81", "L83", "done", "trap"}
    /\ buf \in {"none", "live", "freed"}
    /\ Len(edges) <= cap

\* =================================================================
\* Properties
\* =================================================================

\* the precondition of the documentation: n >= 3, k > 0, 2k < n
Valid == n >= 3 /\ k > 0 /\ 2 * k < n

\* endpoint number j (from 1) of the edge list of the documentation, in
\* mathematical integers: edge triple i = (j-1) div 6, six endpoints each
ExpectedAt(nn, kk, j) ==
    LET ii == (j - 1) \div 6
        p  == (j - 1) % 6
    IN  CASE p = 0 -> ii
          [] p = 1 -> (ii + 1) % nn
          [] p = 2 -> ii
          [] p = 3 -> ii + nn
          [] p = 4 -> ii + nn
          [] p = 5 -> ((ii + kk) % nn) + nn

\* the edge list of the documentation for i = 0 .. m-1
ExpectedEdges(nn, kk, m) == [j \in 1 .. (6 * m) |-> ExpectedAt(nn, kk, j)]

\* the edges a flat endpoint list describes, as pairs
EdgeIndex(es) == 1 .. (Len(es) \div 2)
EdgeAt(es, e) == <<es[2 * e - 1], es[2 * e]>>

\* number of edge endpoints of the list that are vertex v
Degree(es, v) == Cardinality({j \in 1 .. Len(es) : es[j] = v})

RECURSIVE GCD(_, _)
GCD(a, b) == IF b = 0 THEN a ELSE GCD(b, a % b)

\* the edges of the list that join two inner vertices, as a set of pairs
InnerEdges(es, nn) ==
    {EdgeAt(es, e) : e \in {f \in EdgeIndex(es) : es[2 * f - 1] >= nn /\ es[2 * f] >= nn}}

\* neighbours of v along the set IE of pairs
Nbrs(IE, v) == {p[2] : p \in {q \in IE : q[1] = v}} \cup
               {p[1] : p \in {q \in IE : q[2] = v}}

\* the vertices reachable from the set S along IE; F is the frontier
RECURSIVE Reach(_, _, _)
Reach(IE, S, F) ==
    LET T == (UNION {Nbrs(IE, v) : v \in F}) \ S
    IN  IF T = {} THEN S ELSE Reach(IE, S \cup T, T)

Components(IE, V) == {Reach(IE, {v}, {v}) : v \in V}

\* number of pairs of IE inside the vertex set C
EdgesInside(IE, C) == Cardinality({p \in IE : p[1] \in C /\ p[2] \in C})

C2_RejectsExactlyInvalid ==
    (pc = "done" /\ fails = 0) =>
        /\ (exitline \in {59, 63} /\ ret = "IGRAPH_EINVAL") <=> ~Valid
        /\ n < 3 => errmsg = "n must be at least 3."

\* ---- C3: for valid (n, k) the edge list handed to the factory is the
\* three edges (i,(i+1) mod n), (i,i+n), (i+n,((i+k) mod n)+n) for i = 0..n-1
C3_FactoryGetsFormulaList ==
    (pc = "L78" /\ Valid /\ ~ub) => edges = ExpectedEdges(n, k, n)

\* ---- C4: for valid (n, k) every one of the 2n vertices has degree 3 in
\* the graph the emitted edge list describes
C4_EveryVertexDegreeThree ==
    (pc = "L78" /\ Valid) =>
        /\ Len(emitted) = 6 * n
        /\ fails = 0 => edges = emitted
        /\ \A v \in 0 .. (2 * n - 1) : Degree(emitted, v) = 3

C4_Witness ==
    /\ pc = "L78" /\ n = 5 /\ k = 2
    /\ Degree(emitted, 0) = 3 /\ Degree(emitted, 9) = 3

\* ---- C5: for valid (n, k) the emitted inner edges form gcd(k, n)
\* components on the inner vertices, each a cycle on n / gcd(k, n) vertices
C5_InnerCyclesByGcd ==
    (pc = "L78" /\ Valid) =>
        LET g  == GCD(k, n)
            IE == InnerEdges(emitted, n)
            CS == Components(IE, n .. (2 * n - 1))
        IN  /\ Cardinality(IE) = n
            /\ Cardinality(CS) = g
            /\ \A C \in CS :
                  /\ Cardinality(C) = n \div g
                  /\ EdgesInside(IE, C) = n \div g
                  /\ \A v \in C : Cardinality(Nbrs(IE, v)) = 2

C5_Witness ==
    /\ pc = "L78" /\ n = 6 /\ k = 2
    /\ Components(InnerEdges(emitted, 6), 6 .. 11) = {{6, 8, 10}, {7, 9, 11}}

\* ---- C6: for valid (n, k), a call in which an allocation step failed
\* returns the allocation error and no graph; a graph is returned only
\* when it was built from the complete 3n-edge list
C6_NoPartialSuccess ==
    (pc = "done" /\ Valid /\ ~ub) =>
        /\ fails > 0 => (ret = "IGRAPH_ENOMEM" /\ ~graph.built)
        /\ graph.built => graph.edges = ExpectedEdges(n, k, n)

\* ---- C7: at return the edge buffer is not live; the invalid-parameter
\* exits never allocated it; the reserve-failure, factory-failure and
\* success exits released it exactly once
C7_BufferReleasedOnce ==
    /\ frees <= 1
    /\ pc \in {"L55", "L58", "L62"} => buf = "none"
    /\ pc = "done" =>
          /\ buf # "live"
          /\ finally = 0
          /\ exitline \in {59, 63} => (buf = "none" /\ frees = 0)
          /\ exitline \in {67, 78, 83} => (buf = "freed" /\ frees = 1)

C7_Witness ==
    /\ pc = "done" /\ exitline = 78 /\ ret = "IGRAPH_ENOMEM"
    /\ buf = "freed" /\ frees = 1

\* ---- C8: the capacity reserved at line 67 covers the loop: the buffer
\* never holds more integers than were reserved and no append grows it
C8_ReserveCoversLoop ==
    (Valid /\ ~ub /\ reserved >= 0) =>
        (Len(edges) <= reserved /\ regrows = 0)

\* ---- C9 as stated: for 3 <= n <= floor(MAX/2) and valid k no
\* expression the function evaluates overflows
C9_NoOverflowToHalfRange ==
    (Valid /\ n <= MAXINT \div 2) => (~ub /\ pc # "trap")

\* ---- C9 amended: for 3 <= n <= floor(MAX/3) and valid k every expression
\* equals its mathematical value and the endpoints lie in [0,n) or [n,2n)
C9_NoOverflowToThirdRange ==
    (Valid /\ n <= MAXINT \div 3) =>
        /\ ~ub /\ pc # "trap"
        /\ pc \notin {"L55"} => no_of_nodes = 2 * n
        /\ reserved >= 0 => reserved = 3 * n
        /\ \A j \in 1 .. Len(emitted) : emitted[j] = ExpectedAt(n, k, j)
        /\ \A j \in 1 .. Len(emitted) : 0 <= emitted[j] /\ emitted[j] < 2 * n

C9_Witness ==
    /\ pc = "L78" /\ n = MAXINT \div 3 /\ k > 0
    /\ ~ub /\ reserved = 3 * n /\ Len(emitted) = 6 * n

\* ---- C10: for every valid (n, k), and every (n, k) the validation
\* accepts without overflow, the emitted edge list has no self-loop and
\* no two edges on the same unordered pair
C10_SimpleGraph ==
    (pc = "L78" /\ (Valid \/ ~ub)) =>
        /\ \A e \in EdgeIndex(emitted) : emitted[2 * e - 1] # emitted[2 * e]
        /\ \A e, f \in EdgeIndex(emitted) :
              e # f =>
                 /\ EdgeAt(emitted, e) # EdgeAt(emitted, f)
                 /\ EdgeAt(emitted, e) # <<emitted[2 * f], emitted[2 * f - 1]>>

C10_Witness ==
    /\ pc = "L78" /\ n = 5 /\ k = 2 /\ Len(emitted) = 30
    /\ EdgeAt(emitted, 15) = <<9, 6>>
====
